---- MODULE Spec2Model ----
(***************************************************************************)
(* Batch OCR of a directory tree: extract_text.py (sequential variant) and *)
(* extract_text_parallel.py (thread-pool variant).                         *)
(*                                                                         *)
(* A path is a sequence of tokens: "/" separates directories, "." is the   *)
(* dot character, every other token is a run of characters holding neither.*)
(* The text the remote model extracts from image p is the value            *)
(* [kind |-> "text", of |-> p].                                            *)
(***************************************************************************)
EXTENDS Integers, Sequences, FiniteSets, TLC

VARIABLES
    variant,          \* "seq" (extract_text.py) or "par" (extract_text_parallel.py)
    env,              \* the environment read by os.getenv
    root_exists,      \* whether ROOT_DIRECTORY names an existing directory
    tree,             \* the image and other files below the root before the run
    disk,             \* content of every derived output path
    disk0,            \* disk as it was before the run
    pc,               \* position of process_directory
    max_workers,      \* int(os.getenv('MAX_WORKERS', '5'))
    files_to_process, \* par: the list built by the scan
    todo,             \* seq: directory entries os.walk has not yielded yet
    stage,            \* par: position of each task's future
    res,              \* what process_image / save_ocr_result did for each file
    successful,       \* successful (par) / processed (seq)
    failed,
    total,            \* total_files (par) / total (seq)
    pbar,             \* par: the count of the tqdm progress bar
    calls,            \* number of model.generate_content calls begun per file
    out_error,        \* the "Error: ... not found" line printed, or "none"
    out_found,        \* par: the count in "Found N images to process", or -1
    out_summary,      \* the "Total: .., Successful: .., Failed: .." line
    prev_run          \* the task list and results of the run before this one

vars == <<variant, env, root_exists, tree, disk, disk0, pc, max_workers,
          files_to_process, todo, stage, res, successful, failed, total, pbar,
          calls, out_error, out_found, out_summary, prev_run>>

----------------------------------------------------------------------------
(* Bounds *)

MaxFiles == 3      \* most files in the tree before the run
MaxPool == 2       \* largest MAX_WORKERS value set in the environment

(* Program constants *)

DefaultWorkers == 5

----------------------------------------------------------------------------
(* Strings *)

NoPath == <<>>

\* str.lower() on one token
LowerTok(t) ==
    CASE t = "JPG" -> "jpg"
      [] t = "Tif" -> "tif"
      [] OTHER -> t

Lower(s) == [i \in 1..Len(s) |-> LowerTok(s[i])]

\* str.rfind(t), 1-based, 0 when absent
RFind(s, t) ==
    LET I == {i \in 1..Len(s) : s[i] = t}
    IN IF I = {} THEN 0 ELSE CHOOSE i \in I : \A j \in I : j <= i

\* os.path.splitext(p)[1]: from the last dot of the last component, unless
\* that component has only dots before it
SplitExt(p) ==
    LET sep == RFind(p, "/")
        dot == RFind(p, ".")
    IN IF dot > sep /\ (\E k \in (sep + 1)..(dot - 1) : p[k] # ".")
       THEN SubSeq(p, dot, Len(p))
       ELSE <<>>

\* str(p).rsplit('.', 1)[0]
RSplitDot(p) ==
    LET dot == RFind(p, ".")
    IN IF dot = 0 THEN p ELSE SubSeq(p, 1, dot - 1)

\* the output path of save_ocr_result and of the scan's existence test
Derive(p) == RSplitDot(p) \o <<"_ocr", ".", "txt">>

\* os.walk yields (dirpath, filenames); os.path.join puts them back together
DirOf(p) == LET sep == RFind(p, "/") IN IF sep = 0 THEN <<>> ELSE SubSeq(p, 1, sep - 1)
NameOf(p) == SubSeq(p, RFind(p, "/") + 1, Len(p))
Join(d, n) == IF d = <<>> THEN n ELSE d \o <<"/">> \o n

\* supported_formats with '.png' added
supported_formats_png ==
    {<<".", "jpg">>, <<".", "jpeg">>, <<".", "tiff">>, <<".", "tif">>, <<".", "png">>}

supported_formats ==
    {<<".", "jpg">>, <<".", "jpeg">>, <<".", "tiff">>, <<".", "tif">>}

\* Supported with the .lower() call left out
SupportedCaseSensitive(filename) == SplitExt(filename) \in supported_formats

\* file_ext = os.path.splitext(filename)[1].lower(); file_ext in supported_formats
Supported(filename) == Lower(SplitExt(filename)) \in supported_formats

----------------------------------------------------------------------------
(* The files a tree may hold *)

Universe ==
    { <<"a", ".", "JPG">>,
      <<"b", ".", "png">>,
      <<".", "jpg">>,
      <<"d", "/", "c", ".", "tiff">>,
      <<"d", "/", "c", ".", "Tif">> }

OutPaths == {Derive(p) : p \in Universe}
AllPaths == Universe \cup OutPaths

Absent == [kind |-> "absent", of |-> NoPath]
Old == [kind |-> "old", of |-> NoPath]         \* written before the run
Partial == [kind |-> "partial", of |-> NoPath] \* opened with 'w', write not completed
Text(p) == [kind |-> "text", of |-> p]

\* os.path.exists
Exists(d, o) == o \in DOMAIN d /\ d[o].kind # "absent"

\* every non-directory entry below the root
Entries(d) == tree \cup {o \in OutPaths : Exists(d, o)}

\* os.walk is top-down: a directory's files come before those of its subdirectories
IsProperPrefix(a, b) == Len(a) < Len(b) /\ SubSeq(b, 1, Len(a)) = a
WalkNext(p, S) == \A q \in S : ~IsProperPrefix(DirOf(q), DirOf(p))

WalkOrders(S) ==
    LET n == Cardinality(S)
    IN { s \in [1..n -> S] :
           /\ \A i, j \in 1..n : i # j => s[i] # s[j]
           /\ \A i, j \in 1..n : i < j => ~IsProperPrefix(DirOf(s[j]), DirOf(s[i])) }

----------------------------------------------------------------------------
(* Configuration *)

Unset == [kind |-> "unset", val |-> 0]
NotInt == [kind |-> "text", val |-> 0]      \* a value int() rejects
IntStr(n) == [kind |-> "int", val |-> n]

EnvSet ==
    [api : BOOLEAN, root : BOOLEAN, model : BOOLEAN,
     workers : {Unset, NotInt} \cup {IntStr(n) : n \in 0..MaxPool}]

\* int(os.getenv('MAX_WORKERS', '5')): the value, or "ValueError"
ParseWorkers(e) ==
    CASE e.workers.kind = "unset" -> [ok |-> TRUE, val |-> DefaultWorkers]
      [] e.workers.kind = "int" -> [ok |-> TRUE, val |-> e.workers.val]
      [] OTHER -> [ok |-> FALSE, val |-> 0]

\* MissingSetting with the MODEL_NAME test left out
MissingSettingNoModel(e) ==
    IF ~e.api THEN "GEMINI_API_KEY"
    ELSE IF ~e.root THEN "ROOT_DIRECTORY"
    ELSE "none"

\* the three "if not ...: print(...); return" tests, in order
MissingSetting(e) ==
    IF ~e.api THEN "GEMINI_API_KEY"
    ELSE IF ~e.root THEN "ROOT_DIRECTORY"
    ELSE IF ~e.model THEN "MODEL_NAME"
    ELSE "none"

NoSummary == [printed |-> FALSE, total |-> 0, successful |-> 0, failed |-> 0]

----------------------------------------------------------------------------
(* process_image, save_ocr_result, worker *)

OcrOutcomes == {"decode_fail", "call_fail", "empty", "text"}
SaveOutcomes == {"ok", "open_fail", "write_fail"}
NoRes == [ocr |-> "none", save |-> "none"]
NoRun == [done |-> FALSE, tasks |-> {}, verdict |-> [p \in AllPaths |-> "none"]]

\* Python truthiness of ocr_text: None and "" are false
Truthy(o) == o = "text"

\* the error process_image returns beside the text (par)
ErrorOf(o) == IF o \in {"decode_fail", "call_fail"} THEN o ELSE "None"

\* the try block of process_image raised: Image.open or the conversion
\* ("decode_fail"), generate_content or response.text ("call_fail")
Raises(o) == o \in {"decode_fail", "call_fail"}

\* Caught for a handler that names the decoding errors only
CaughtDecodeOnly(o) == o = "decode_fail"

\* "except Exception as e" catches whatever the try block raised
Caught(o) == Raises(o)

\* extract_text_parallel.py process_image: (image_path, text, error), or an
\* exception that leaves the function
process_image(o) ==
    IF ~Raises(o) THEN [raised |-> FALSE, text |-> o, error |-> "None"]
    ELSE IF Caught(o) THEN [raised |-> FALSE, text |-> "None", error |-> ErrorOf(o)]
    ELSE [raised |-> TRUE, text |-> "None", error |-> "None"]

\* extract_text.py process_image: the text or None, the error only printed
process_image_seq(o) ==
    IF ~Raises(o) THEN [raised |-> FALSE, text |-> o]
    ELSE IF Caught(o) THEN [raised |-> FALSE, text |-> "None"]
    ELSE [raised |-> TRUE, text |-> "None"]

\* what the caller of process_image is left with
Outcome(r, o) == IF r.raised THEN "escaped" ELSE o

\* the task's future holds an exception instead of worker's return value
TaskRaised(r) == r.ocr = "escaped" \/ r.save = "raised"

\* worker(): status from ocr_text and save_ocr_result's return value
WorkerStatus(r) ==
    IF Truthy(r.ocr)
    THEN IF r.save = "ok" THEN <<"Success">> ELSE <<"Failed to save">>
    ELSE <<"Failed: ", ErrorOf(r.ocr)>>

\* status.startswith("Success")
IsSuccess(status) == status[1] = "Success"

\* open(output_path, 'w') truncates or creates the file
OpenW(d, o) == [d EXCEPT ![o] = Partial]
\* WriteText with the f.write call left out
WriteNothing(d, o, p) == d

\* f.write(ocr_text) and the close at the end of the with block
WriteText(d, o, p) == [d EXCEPT ![o] = Text(p)]

\* save_ocr_result(image_path, ocr_text) as a whole, with outcome s
Save(d, p, s) ==
    CASE s = "open_fail" -> d
      [] s = "write_fail" -> OpenW(d, Derive(p))
      [] OTHER -> WriteText(OpenW(d, Derive(p)), Derive(p), p)

----------------------------------------------------------------------------
(* Initial states *)

Init ==
    /\ variant \in {"seq", "par"}
    /\ env \in EnvSet
    /\ variant = "seq" => env.workers = Unset   \* extract_text.py never reads it
    /\ root_exists \in BOOLEAN
    /\ tree \in SUBSET Universe
    /\ Cardinality(tree) <= MaxFiles
    /\ ~root_exists => tree = {}
    /\ disk0 \in [OutPaths -> {Absent, Old}]
    /\ \A o \in OutPaths : disk0[o] = Old => \E p \in tree : Derive(p) = o
    /\ disk = disk0
    /\ pc = "start"
    /\ max_workers = 0
    /\ files_to_process = <<>>
    /\ todo = {}
    /\ stage = [p \in AllPaths |-> "none"]
    /\ res = [p \in AllPaths |-> NoRes]
    /\ successful = 0
    /\ failed = 0
    /\ total = 0
    /\ pbar = 0
    /\ calls = [p \in AllPaths |-> 0]
    /\ out_error = "none"
    /\ out_found = -1
    /\ out_summary = NoSummary
    /\ prev_run = NoRun

----------------------------------------------------------------------------
(* extract_text_parallel.py: process_directory *)

\* lines 77-92: read the settings; a missing one prints an error and returns
ConfigPar ==
    /\ pc = "start" /\ variant = "par"
    /\ LET w == ParseWorkers(env)
           m == MissingSetting(env)
       IN IF ~w.ok
          THEN /\ pc' = "crashed"              \* ValueError from int()
               /\ UNCHANGED <<max_workers, out_error>>
          ELSE /\ max_workers' = w.val
               /\ out_error' = m
               /\ pc' = IF m = "none" THEN "scan" ELSE "done"
    /\ UNCHANGED <<prev_run,
                   variant, env, root_exists, tree, disk, disk0, files_to_process,
                   todo, stage, res, successful, failed, total, pbar, calls,
                   out_found, out_summary>>

\* ToProcess with the os.path.exists test left out
ToProcessAll(d) == {p \in Entries(d) : Supported(NameOf(p))}

\* OcrFile computed from the file name alone, the directory dropped
OcrFileOfName(file_path) == RSplitDot(NameOf(file_path)) \o <<"_ocr", ".", "txt">>

\* line 113: ocr_file = file_path.rsplit('.', 1)[0] + '_ocr.txt'
OcrFile(file_path) == RSplitDot(file_path) \o <<"_ocr", ".", "txt">>

\* lines 108-114: an image with a supported extension and no output file yet
ToProcess(d) ==
    {p \in Entries(d) :
        /\ Supported(NameOf(p))
        /\ ~Exists(d, OcrFile(Join(DirOf(p), NameOf(p))))}

\* lines 103-122: build files_to_process; nothing to do ends the run
Scan ==
    /\ pc = "scan"
    /\ \E order \in WalkOrders(ToProcess(disk)) :
         /\ files_to_process' = order
         /\ total' = Len(order)
         /\ out_found' = Len(order)
         /\ pc' = IF Len(order) = 0 THEN "done" ELSE "submit"
    /\ UNCHANGED <<prev_run,
                   variant, env, root_exists, tree, disk, disk0, max_workers, todo,
                   stage, res, successful, failed, pbar, calls, out_error,
                   out_summary>>

Range(s) == {s[i] : i \in 1..Len(s)}

\* lines 129-134: ThreadPoolExecutor(max_workers) rejects a size <= 0; every
\* task is submitted before any completion is consumed
Submit ==
    /\ pc = "submit"
    /\ IF max_workers <= 0
       THEN /\ pc' = "crashed"                 \* ValueError from the executor
            /\ UNCHANGED stage
       ELSE /\ pc' = "collect"
            /\ stage' = [p \in AllPaths |->
                           IF p \in Range(files_to_process) THEN "queued" ELSE "none"]
    /\ UNCHANGED <<prev_run,
                   variant, env, root_exists, tree, disk, disk0, max_workers,
                   files_to_process, todo, res, successful, failed, total, pbar,
                   calls, out_error, out_found, out_summary>>

\* Busy for a pool whose threads are not given back after a task
BusyNeverFreed(st) ==
    {p \in AllPaths : st[p] \in {"calling", "hung", "writing", "finished", "collected"}}

\* the tasks a pool thread is running ("hung": in a remote call that never returns)
Busy(st) == {p \in AllPaths : st[p] \in {"calling", "hung", "writing"}}

\* PoolHasRoom for a pool that keeps one thread back
PoolHasRoomOffByOne(st, mw) == Cardinality(Busy(st)) + 1 < mw

\* PoolHasRoom for a pool that starts a thread per submitted task
PoolUnbounded(st, mw) == TRUE

\* a pool of max_workers threads takes a queued task only when a thread is idle
PoolHasRoom(st, mw) == Cardinality(Busy(st)) < mw

\* the executor's work queue is first-in first-out in submission order
QueueHead(st, list) ==
    LET I == {i \in 1..Len(list) : st[list[i]] = "queued"}
    IN list[CHOOSE i \in I : \A j \in I : i <= j]

\* worker -> process_image, lines 16-32: a pool thread takes the next task and
\* decodes the image; lines 35-38: it begins the remote call
Start(p) ==
    /\ pc = "collect"
    /\ stage[p] = "queued"
    /\ p = QueueHead(stage, files_to_process)
    /\ PoolHasRoom(stage, max_workers)
    /\ \/ /\ stage' = [stage EXCEPT ![p] = "finished"]
          /\ res' = [res EXCEPT ![p] =
                        [ocr |-> Outcome(process_image("decode_fail"), "decode_fail"),
                         save |-> "none"]]
          /\ UNCHANGED calls
       \/ /\ stage' = [stage EXCEPT ![p] = "calling"]
          /\ calls' = [calls EXCEPT ![p] = @ + 1]
          /\ UNCHANGED res
    /\ UNCHANGED <<prev_run,
                   variant, env, root_exists, tree, disk, disk0, pc, max_workers,
                   files_to_process, todo, successful, failed, total, pbar,
                   out_error, out_found, out_summary>>

\* process_image lines 35-42: the remote call returns or raises; worker lines
\* 66-70 and save_ocr_result lines 46-53: with text, the output file is opened
Return(p) ==
    /\ pc = "collect"
    /\ stage[p] = "calling"
    /\ \E o \in OcrOutcomes \ {"decode_fail"} :
         IF ~Truthy(o)
         THEN /\ res' = [res EXCEPT ![p] =
                            [ocr |-> Outcome(process_image(o), o), save |-> "none"]]
              /\ stage' = [stage EXCEPT ![p] = "finished"]
              /\ UNCHANGED disk
         ELSE \/ /\ res' = [res EXCEPT ![p] = [ocr |-> o, save |-> "open_fail"]]
                 /\ stage' = [stage EXCEPT ![p] = "finished"]
                 /\ UNCHANGED disk
              \/ /\ res' = [res EXCEPT ![p] = [ocr |-> o, save |-> "none"]]
                 /\ stage' = [stage EXCEPT ![p] = "writing"]
                 /\ disk' = OpenW(disk, Derive(p))
    /\ UNCHANGED <<prev_run,
                   variant, env, root_exists, tree, disk0, pc, max_workers,
                   files_to_process, todo, successful, failed, total, pbar, calls,
                   out_error, out_found, out_summary>>

\* save_ocr_result lines 53-58: the write and close complete, or raise
Write(p) ==
    /\ pc = "collect"
    /\ stage[p] = "writing"
    /\ \/ /\ disk' = WriteText(disk, Derive(p), p)
          /\ res' = [res EXCEPT ![p].save = "ok"]
       \/ /\ res' = [res EXCEPT ![p].save = "write_fail"]
          /\ UNCHANGED disk
    /\ stage' = [stage EXCEPT ![p] = "finished"]
    /\ UNCHANGED <<prev_run,
                   variant, env, root_exists, tree, disk0, pc, max_workers,
                   files_to_process, todo, successful, failed, total, pbar, calls,
                   out_error, out_found, out_summary>>

\* save_ocr_result lines 56-57: open or write raised and the handler's own
\* tqdm.write raises too, so the exception leaves save_ocr_result and worker
Raise(p) ==
    /\ pc = "collect"
    /\ \/ /\ stage[p] = "calling"
          /\ res' = [res EXCEPT ![p] = [ocr |-> "text", save |-> "raised"]]
       \/ /\ stage[p] = "writing"
          /\ res' = [res EXCEPT ![p].save = "raised"]
    /\ stage' = [stage EXCEPT ![p] = "finished"]
    /\ UNCHANGED <<prev_run,
                   variant, env, root_exists, tree, disk, disk0, pc, max_workers,
                   files_to_process, todo, successful, failed, total, pbar, calls,
                   out_error, out_found, out_summary>>

\* lines 35-38: generate_content has no timeout; this call never returns
Hang(p) ==
    /\ pc = "collect"
    /\ stage[p] = "calling"
    /\ \A q \in AllPaths : stage[q] # "hung"
    /\ stage' = [stage EXCEPT ![p] = "hung"]
    /\ UNCHANGED <<prev_run,
                   variant, env, root_exists, tree, disk, disk0, pc, max_workers,
                   files_to_process, todo, res, successful, failed, total, pbar,
                   calls, out_error, out_found, out_summary>>

\* Tally with the "failed += 1" of the else branch left out
TallyDropsFailure(ok, s, f) ==
    IF ok THEN [successful |-> s + 1, failed |-> f]
    ELSE [successful |-> s, failed |-> f]

\* lines 142-149: exactly one of the two counters goes up by one
Tally(ok, s, f) ==
    IF ok THEN [successful |-> s + 1, failed |-> f]
    ELSE [successful |-> s, failed |-> f + 1]

\* ExceptTally with the "failed += 1" left out
ExceptTallySkips(s, f) == [successful |-> s, failed |-> f]

\* lines 148-149: future.result() raised what the task raised
ExceptTally(s, f) == [successful |-> s, failed |-> f + 1]

\* lines 138-152: one iteration of the as_completed loop
Collect(p) ==
    /\ pc = "collect"
    /\ stage[p] = "finished"
    /\ stage' = [stage EXCEPT ![p] = "collected"]
    /\ LET t == IF TaskRaised(res[p])
                THEN ExceptTally(successful, failed)
                ELSE Tally(IsSuccess(WorkerStatus(res[p])), successful, failed)
       IN successful' = t.successful /\ failed' = t.failed
    /\ pbar' = pbar + 1
    /\ UNCHANGED <<prev_run,
                   variant, env, root_exists, tree, disk, disk0, pc, max_workers,
                   files_to_process, todo, res, total, calls, out_error, out_found,
                   out_summary>>

\* lines 154-156: as_completed is exhausted, the pool is shut down, the summary printed
Summary ==
    /\ pc = "collect"
    /\ \A p \in Range(files_to_process) : stage[p] = "collected"
    /\ out_summary' = [printed |-> TRUE, total |-> total,
                       successful |-> successful, failed |-> failed]
    /\ pc' = "done"
    /\ UNCHANGED <<prev_run,
                   variant, env, root_exists, tree, disk, disk0, max_workers,
                   files_to_process, todo, stage, res, successful, failed, total,
                   pbar, calls, out_error, out_found>>

----------------------------------------------------------------------------
(* extract_text.py: process_directory *)

\* lines 50-64
ConfigSeq ==
    /\ pc = "start" /\ variant = "seq"
    /\ LET m == MissingSetting(env)
       IN /\ out_error' = m
          /\ pc' = IF m = "none" THEN "walk" ELSE "done"
          /\ todo' = IF m = "none" THEN Entries(disk) ELSE {}
    /\ UNCHANGED <<prev_run,
                   variant, env, root_exists, tree, disk, disk0, max_workers,
                   files_to_process, stage, res, successful, failed, total, pbar,
                   calls, out_found, out_summary>>

\* WalkRest for a walk that yields a file again
WalkRestKeeps(S, p) == S

\* lines 81-82: the two for loops yield every file once
WalkRest(S, p) == S \ {p}

\* line 95: "if ocr_text and save_ocr_result(file_path, ocr_text)"
SeqCounted(o, s) == Truthy(o) /\ s = "ok"

\* lines 95-98: processed += 1, else failed += 1
SeqTally(ok, s, f) ==
    IF ok THEN [successful |-> s + 1, failed |-> f]
    ELSE [successful |-> s, failed |-> f + 1]

\* lines 81-98: one iteration of the walk, process_image (lines 12-27) and
\* save_ocr_result (lines 30-45) included
SeqVisit(p) ==
    /\ pc = "walk"
    /\ p \in todo
    /\ WalkNext(p, todo)
    /\ todo' = WalkRest(todo, p)
    /\ IF ~Supported(NameOf(p))
       THEN UNCHANGED <<disk, res, successful, failed, total, calls, pc>>
       ELSE LET file_path == Join(DirOf(p), NameOf(p))
            IN /\ total' = total + 1
               /\ \E o \in OcrOutcomes :
                    LET r == process_image_seq(o)
                    IN /\ calls' = [calls EXCEPT ![file_path] =
                                       IF o = "decode_fail" THEN @ ELSE @ + 1]
                       /\ pc' = IF r.raised THEN "crashed" ELSE pc
                       /\ \E s \in (IF Truthy(o) THEN SaveOutcomes ELSE {"none"}) :
                            /\ res' = [res EXCEPT ![file_path] =
                                          [ocr |-> Outcome(r, o), save |-> s]]
                            /\ disk' = IF Truthy(o) THEN Save(disk, file_path, s)
                                       ELSE disk
                            /\ LET t == SeqTally(SeqCounted(o, s), successful, failed)
                               IN /\ successful' = IF r.raised THEN successful
                                                   ELSE t.successful
                                  /\ failed' = IF r.raised THEN failed ELSE t.failed
    /\ UNCHANGED <<prev_run,
                   variant, env, root_exists, tree, disk0, max_workers,
                   files_to_process, stage, pbar, out_error, out_found, out_summary>>

\* line 101
SeqSummary ==
    /\ pc = "walk"
    /\ todo = {}
    /\ out_summary' = [printed |-> TRUE, total |-> total,
                       successful |-> successful, failed |-> failed]
    /\ pc' = "done"
    /\ UNCHANGED <<prev_run,
                   variant, env, root_exists, tree, disk, disk0, max_workers,
                   files_to_process, todo, stage, res, successful, failed, total,
                   pbar, calls, out_error, out_found>>

----------------------------------------------------------------------------

Next ==
    \/ ConfigPar
    \/ Scan
    \/ Submit
    \/ \E p \in Universe : Start(p)
    \/ \E p \in Universe : Return(p)
    \/ \E p \in Universe : Write(p)
    \/ \E p \in Universe : Collect(p)
    \/ Summary
    \/ ConfigSeq
    \/ \E p \in AllPaths : SeqVisit(p)
    \/ SeqSummary

Spec == Init /\ [][Next]_vars

\* a tree that holds no output file yet (an output from before only takes its
\* image off the concurrent list, or is overwritten by the sequential walk)
InitFresh == Init /\ \A o \in OutPaths : disk0[o] = Absent

\* the scheduler runs every thread that can take a step
FairSpec == InitFresh /\ [][Next]_vars /\ WF_vars(Next)

\* how a run ended for one file: not a task, text written, empty text, or failed
Verdict(r) ==
    CASE r.ocr = "none" -> "none"
      [] r.ocr = "text" /\ r.save = "ok" -> "success"
      [] r.ocr = "empty" -> "empty"
      [] OTHER -> "failed"

\* the concurrent program is started again after it has ended, with the same
\* environment, on the tree as the first run left it
Rerun ==
    /\ variant = "par"
    /\ pc = "done"
    /\ ~prev_run.done
    /\ prev_run' = [done |-> TRUE, tasks |-> Range(files_to_process),
                    verdict |-> [p \in AllPaths |-> Verdict(res[p])]]
    /\ disk0' = disk
    /\ pc' = "start"
    /\ max_workers' = 0
    /\ files_to_process' = <<>>
    /\ stage' = [p \in AllPaths |-> "none"]
    /\ res' = [p \in AllPaths |-> NoRes]
    /\ successful' = 0 /\ failed' = 0 /\ total' = 0 /\ pbar' = 0
    /\ calls' = [p \in AllPaths |-> 0]
    /\ out_error' = "none" /\ out_found' = -1 /\ out_summary' = NoSummary
    /\ UNCHANGED <<variant, env, root_exists, tree, disk, todo>>

NextRerun == Next \/ Rerun
SpecRerun == Init /\ [][NextRerun]_vars

\* runs in which a task may raise out of worker
NextRaise == Next \/ \E p \in Universe : Raise(p)
SpecRaise == Init /\ [][NextRaise]_vars

\* runs in which one remote call may never return
NextHang == Next \/ \E p \in Universe : Hang(p)
SpecHang == InitFresh /\ [][NextHang]_vars /\ WF_vars(Next)

----------------------------------------------------------------------------
(* Well-formedness of the model *)

TypeOK ==
    /\ variant \in {"seq", "par"}
    /\ pc \in {"start", "scan", "submit", "collect", "walk", "done", "crashed"}
    /\ \A p \in AllPaths :
         stage[p] \in {"none", "queued", "calling", "hung", "writing", "finished",
                       "collected"}
    /\ \A p \in AllPaths : res[p].ocr \in OcrOutcomes \cup {"none", "escaped"}
    /\ \A p \in AllPaths : res[p].save \in SaveOutcomes \cup {"none", "raised"}
    /\ successful \in Nat /\ failed \in Nat /\ total \in Nat /\ pbar \in Nat

----------------------------------------------------------------------------
(* Vocabulary of the properties *)

\* the tasks of the run: the scan's list (par), the images the walk has met (seq)
Enumerated ==
    IF variant = "par" THEN Range(files_to_process)
    ELSE {p \in AllPaths : res[p].ocr # "none"}

\* the tasks whose outcome the dispatcher has counted
Consumed ==
    IF variant = "par" THEN {p \in AllPaths : stage[p] = "collected"}
    ELSE {p \in AllPaths : res[p].ocr # "none"}

\* the remote call gave text for p and save_ocr_result wrote it
GotTextAndSaved(p) == res[p].ocr = "text" /\ res[p].save = "ok"

\* the run has printed its summary
Finished == pc = "done" /\ out_summary.printed

\* another task of the run opened p's output file
SharesOutput(p) ==
    \E q \in Enumerated :
        q # p /\ Derive(q) = Derive(p) /\ res[q].save \in {"ok", "write_fail"}

----------------------------------------------------------------------------
(* C1: every task is counted exactly once, as successful or as failed:     *)
(* at every point of a run successful + failed is the number of outcomes   *)
(* consumed so far, and the printed summary has successful + failed =      *)
(* total = the number of enumerated tasks.                                 *)
C1_CountedOnce ==
    /\ successful + failed = Cardinality(Consumed)
    /\ out_summary.printed =>
         /\ out_summary.successful + out_summary.failed = out_summary.total
         /\ out_summary.total = Cardinality(Enumerated)
         /\ Consumed = Enumerated

\* three tasks, the remote call of one fails: total=3, successful=2, failed=1
C1_Witness ==
    /\ variant = "par"
    /\ out_summary = [printed |-> TRUE, total |-> 3, successful |-> 2, failed |-> 1]
    /\ Cardinality({p \in Enumerated : res[p].ocr = "call_fail"}) = 1

InFlight == {p \in AllPaths : stage[p] = "calling"}

C3_BoundedInFlight ==
    variant = "par" => Cardinality(InFlight) <= max_workers

\* a full pool of two with a third task waiting in the queue
C3_Witness ==
    /\ max_workers = 2
    /\ Cardinality(InFlight) = 2
    /\ \E p \in AllPaths : stage[p] = "queued"

----------------------------------------------------------------------------
(* The Locator's contract, stated on the path itself *)

ImageExtSpellings == {"jpg", "JPG", "jpeg", "tif", "Tif", "tiff"}

\* p ends in a dot and one of the four extensions, in any letter case, and
\* its last component has a name before that dot
HasImageExt(p) ==
    /\ Len(p) >= 3
    /\ p[Len(p)] \in ImageExtSpellings
    /\ p[Len(p) - 1] = "."
    /\ \E k \in 1..(Len(p) - 2) :
         /\ p[k] \notin {".", "/"}
         /\ \A m \in k..(Len(p) - 2) : p[m] # "/"

EligibleImages == {p \in tree : HasImageExt(p)}

\* p's derived output file was there before the run
HadOutput(p) == disk0[Derive(p)] # Absent

\* any of the three required settings is missing
SettingMissing == ~env.api \/ ~env.root \/ ~env.model

\* nothing of the run has touched p
Untouched(p) == calls[p] = 0 /\ res[p] = NoRes /\ stage[p] = "none"

(* C4: an eligible image whose derived output exists at scan time is left  *)
(* out of the concurrent variant's task list (never called, not in total); *)
(* the sequential variant counts and processes it like any other image and *)
(* replaces the old output with the text it gets.                          *)
C4_SkipAsymmetry ==
    /\ variant = "par" =>
         /\ \A p \in EligibleImages :
              HadOutput(p) => /\ p \notin Range(files_to_process)
                              /\ Untouched(p)
                              /\ disk[Derive(p)] = Old
         /\ out_found >= 0 =>
              total = Cardinality({p \in EligibleImages : ~HadOutput(p)})
    /\ (variant = "seq" /\ Finished) =>
         /\ out_summary.total = Cardinality(EligibleImages)
         /\ \A p \in EligibleImages :
              HadOutput(p) =>
                /\ res[p].ocr # "none"
                /\ res[p].ocr # "decode_fail" => calls[p] = 1
                /\ GotTextAndSaved(p) => disk[Derive(p)] # Old
                /\ (GotTextAndSaved(p) /\ ~SharesOutput(p)) => disk[Derive(p)] = Text(p)

\* a concurrent run that skipped an image with an output and processed another
C4_Witness ==
    /\ variant = "par" /\ Finished
    /\ \E p \in EligibleImages : HadOutput(p) /\ Untouched(p)
    /\ \E q \in EligibleImages : GotTextAndSaved(q)

\* a sequential run that replaced an existing output
C4_WitnessSeq ==
    /\ variant = "seq" /\ Finished
    /\ \E p \in EligibleImages : HadOutput(p) /\ disk[Derive(p)] = Text(p)

(* C5: the run leaves the derived output file of every task it counts as   *)
(* failed as it was before the run.                                        *)
CountedFailed(p) == p \in Consumed /\ ~GotTextAndSaved(p)

C5_FailedLeavesNoOutput ==
    \A p \in AllPaths : CountedFailed(p) => disk[Derive(p)] = disk0[Derive(p)]

(* C6: after a run, distinct successful images have distinct output files, *)
(* the number of output files written equals the successful count, and     *)
(* each holds the text of its own image.                                   *)
Successes == {p \in Consumed : GotTextAndSaved(p)}

C6_OneOutputPerSuccess ==
    Finished =>
      /\ \A p, q \in Successes : p # q => Derive(p) # Derive(q)
      /\ Cardinality({Derive(p) : p \in Successes}) = out_summary.successful
      /\ \A p \in Successes : disk[Derive(p)] = Text(p)

(* C7: with a required setting missing the run does no processing: no     *)
(* scan, no remote call, no file written, no counters reported.            *)
NoProcessing ==
    /\ files_to_process = <<>> /\ todo = {} /\ out_found = -1
    /\ \A p \in AllPaths : Untouched(p)
    /\ disk = disk0
    /\ ~out_summary.printed
    /\ total = 0 /\ successful = 0 /\ failed = 0

\* C7 as stated: the run only prints an error message and returns
C7_PrintsErrorAndReturns ==
    (SettingMissing /\ pc # "start") =>
        NoProcessing /\ pc = "done" /\ out_error # "none"

\* C7 as the code has it: the concurrent variant parses MAX_WORKERS before it
\* tests the required settings, and a value that is no integer raises there
C7_NoProcessingOnMissingSetting ==
    SettingMissing =>
      /\ NoProcessing
      /\ pc # "start" =>
           IF variant = "par" /\ env.workers = NotInt
           THEN pc = "crashed" /\ out_error = "none"
           ELSE pc = "done" /\ out_error \in {"GEMINI_API_KEY", "ROOT_DIRECTORY", "MODEL_NAME"}

\* only MODEL_NAME is missing, over a tree with an image to process
C7_Witness ==
    /\ env.api /\ env.root /\ ~env.model
    /\ EligibleImages # {} /\ (\E p \in EligibleImages : ~HadOutput(p))
    /\ pc = "done" /\ out_error = "MODEL_NAME"

(* C8: a root directory that does not exist makes the run fail with a      *)
(* configuration error, which a run over an empty root does not.           *)
C8_MissingRootIsError ==
    (~SettingMissing /\ ~root_exists /\ pc = "done") =>
        out_error # "none" /\ out_found = -1 /\ ~out_summary.printed

(* C9: with the settings read and no eligible file (none with a supported  *)
(* extension, or in the concurrent variant all with their output present)  *)
(* the run reports a total of 0 and ends with no remote call and no write. *)
EligibleTasks ==
    IF variant = "par" THEN {p \in EligibleImages : ~HadOutput(p)} ELSE EligibleImages

C9_NothingToDo ==
    (~SettingMissing /\ env.workers # NotInt /\ EligibleTasks = {}) =>
      /\ \A p \in AllPaths : Untouched(p)
      /\ disk = disk0
      /\ pc \notin {"submit", "collect", "crashed"}
      /\ pc # "done" => ENABLED Next
      /\ pc = "done" =>
           IF variant = "par"
           THEN out_found = 0 /\ total = 0
           ELSE out_summary = [printed |-> TRUE, total |-> 0, successful |-> 0, failed |-> 0]

\* a concurrent run over images that all have their output already
C9_Witness ==
    /\ variant = "par" /\ pc = "done" /\ out_found = 0
    /\ Cardinality(EligibleImages) >= 2
    /\ \A p \in EligibleImages : HadOutput(p)

(* C10: the Locator selects exactly the files of the tree whose extension  *)
(* is .jpg, .jpeg, .tif or .tiff in any letter case (the concurrent        *)
(* variant: those of them without a derived output), and nothing else is   *)
(* ever given to the OCR client.                                           *)
C10_LocatorExact ==
    /\ (variant = "par" /\ out_found >= 0) =>
         /\ Range(files_to_process) = {p \in EligibleImages : ~HadOutput(p)}
         /\ Len(files_to_process) = Cardinality(Range(files_to_process))
    /\ (variant = "seq" /\ Finished) =>
         {p \in AllPaths : res[p].ocr # "none"} = EligibleImages
    /\ \A p \in AllPaths : ~Untouched(p) => p \in EligibleTasks

\* a.JPG, b.png, d/c.tiff yields a.JPG and d/c.tiff
C10_Witness ==
    /\ variant = "par" /\ pc = "collect"
    /\ tree = {<<"a", ".", "JPG">>, <<"b", ".", "png">>, <<"d", "/", "c", ".", "tiff">>}
    /\ Range(files_to_process) = {<<"a", ".", "JPG">>, <<"d", "/", "c", ".", "tiff">>}
    /\ \A p \in Range(files_to_process) : calls[p] = 1

----------------------------------------------------------------------------
(* C11: the derived output path of an eligible image is its path with the  *)
(* final extension removed and "_ocr.txt" appended (a/b.jpeg gives         *)
(* a/b_ocr.txt); the path whose existence the concurrent scan tests is the *)
(* path save_ocr_result writes: the scan lists exactly the eligible images *)
(* with no file at that path, and a run changes a file only at that path   *)
(* of an image it got text for.                                            *)
SpecDerive(p) == SubSeq(p, 1, Len(p) - 2) \o <<"_ocr", ".", "txt">>

C11_DerivedPath ==
    /\ Derive(<<"a", "/", "b", ".", "jpeg">>) = <<"a", "/", "b", "_ocr", ".", "txt">>
    /\ \A p \in EligibleImages :
         /\ Derive(p) = SpecDerive(p)
         /\ OcrFile(Join(DirOf(p), NameOf(p))) = Derive(p)
    /\ (variant = "par" /\ out_found >= 0) =>
         Range(files_to_process) = {p \in EligibleImages : disk0[SpecDerive(p)] = Absent}
    /\ \A o \in OutPaths :
         disk[o] # disk0[o] =>
            \E p \in EligibleImages : o = SpecDerive(p) /\ res[p].ocr = "text"
    /\ \A p \in EligibleImages : GotTextAndSaved(p) => disk[SpecDerive(p)] # Absent

\* a concurrent run that skipped an image of directory d whose output was
\* there and wrote the output of another image
C11_Witness ==
    /\ variant = "par" /\ Finished
    /\ \E q \in EligibleImages :
         DirOf(q) # <<>> /\ disk0[SpecDerive(q)] = Old /\ Untouched(q)
    /\ \E p \in EligibleImages : disk[SpecDerive(p)] = Text(p)

(* C12: in the concurrent variant no two tasks write the same output file: *)
(* never are two tasks between open and close of one file at the same      *)
(* time, and no file is opened by more than one task of a run.             *)
Opened(p) == stage[p] = "writing" \/ res[p].save \in {"ok", "write_fail"}

C12_NoSharedWrites ==
    variant = "par" =>
      \A p, q \in Enumerated :
         (p # q /\ Derive(p) = Derive(q)) =>
            /\ ~(stage[p] = "writing" /\ stage[q] = "writing")
            /\ ~(Opened(p) /\ Opened(q))

(* C16: within one run the remote call is made at most once per file, and  *)
(* a file whose task has completed (its call failed, or anything else) is  *)
(* never queued, started or called again, in either variant.               *)
Processed(p) ==
    IF variant = "par" THEN stage[p] \in {"finished", "collected"}
    ELSE res[p].ocr # "none"

C16_NoRetry ==
    [][\A p \in AllPaths :
          /\ calls'[p] <= 1
          /\ Processed(p) =>
               /\ calls'[p] = calls[p]
               /\ res'[p] = res[p]
               /\ stage'[p] \in {"finished", "collected"} \/ variant = "seq"
               /\ p \notin todo']_vars

\* a finished run with a file whose one remote call failed, counted failed
C16_Witness ==
    /\ Finished
    /\ \E p \in Enumerated :
         res[p].ocr = "call_fail" /\ calls[p] = 1 /\ out_summary.failed >= 1
    /\ \E q \in Enumerated : GotTextAndSaved(q)

(* C17: over a tree with no derived output file, a finished concurrent run *)
(* leaves the files and reports the counts that the sequential variant     *)
(* leaves and reports when it meets the same files in the same walk order  *)
(* with the same outcome of each file's remote call and write.             *)
RECURSIVE SeqDiskFrom(_, _, _)
SeqDiskFrom(list, i, d) ==
    IF i > Len(list) THEN d
    ELSE LET p == list[i]
         IN SeqDiskFrom(list, i + 1,
                        IF Truthy(res[p].ocr) THEN Save(d, p, res[p].save) ELSE d)

SeqSummaryOf(list) ==
    LET ok == {p \in Range(list) : SeqCounted(res[p].ocr, res[p].save)}
    IN [printed |-> TRUE, total |-> Len(list),
        successful |-> Cardinality(ok), failed |-> Len(list) - Cardinality(ok)]

C17_SameAsSequential ==
    (variant = "par" /\ Finished /\ \A o \in OutPaths : disk0[o] = Absent) =>
        /\ out_summary = SeqSummaryOf(files_to_process)
        /\ disk = SeqDiskFrom(files_to_process, 1, disk0)

\* the same statement for the runs in which no two tasks share an output file
C17_SameWithoutCollision ==
    (variant = "par" /\ Finished /\ (\A o \in OutPaths : disk0[o] = Absent)
       /\ \A p, q \in Enumerated : p # q => Derive(p) # Derive(q)) =>
        /\ out_summary = SeqSummaryOf(files_to_process)
        /\ disk = SeqDiskFrom(files_to_process, 1, disk0)

(* C18: process_image lets no failure escape as an exception: whatever the *)
(* try block does it returns, no run ends in an exception once the walk or *)
(* the pool has started, and in the concurrent variant the result has      *)
(* exactly one of text and error (text and no error when the call          *)
(* returned, no text and an error description when anything raised).       *)
C18_NeverRaises ==
    /\ \A o \in OcrOutcomes : ~process_image(o).raised /\ ~process_image_seq(o).raised
    /\ \A p \in AllPaths : res[p].ocr # "escaped" /\ ~TaskRaised(res[p])
    /\ pc = "crashed" => \A p \in AllPaths : Untouched(p)
    /\ \A p \in AllPaths :
         (variant = "par" /\ res[p].ocr # "none") =>
            LET r == process_image(res[p].ocr)
            IN /\ (r.text # "None") # (r.error # "None")
               /\ Raises(res[p].ocr) <=> r.error \in {"decode_fail", "call_fail"}
               /\ ~Raises(res[p].ocr) <=> r.text = res[p].ocr

\* a finished concurrent run with a decoding failure, a failed call and a text
C18_Witness ==
    /\ variant = "par" /\ Finished
    /\ \E p, q, t \in Enumerated :
         /\ res[p].ocr = "decode_fail" /\ process_image(res[p].ocr).error = "decode_fail"
         /\ res[q].ocr = "call_fail" /\ process_image(res[q].ocr).text = "None"
         /\ res[t].ocr = "text" /\ process_image(res[t].ocr).error = "None"

(* C19: in the concurrent variant a task that raises inside the pool costs *)
(* exactly one failure and one step of the progress bar: every consumed    *)
(* task has raised exactly one of the two counters, the bar counts the     *)
(* consumed tasks, the loop can go on while tasks remain, the run never    *)
(* ends in an exception, and at the summary every other task has been run  *)
(* and counted by its own outcome.                                         *)
C19_RaisedTaskIsOneFailure ==
    variant = "par" =>
      /\ failed = Cardinality({p \in Consumed : TaskRaised(res[p]) \/ ~GotTextAndSaved(p)})
      /\ successful = Cardinality({p \in Consumed : GotTextAndSaved(p)})
      /\ pbar = Cardinality(Consumed)
      /\ pc = "collect" => ENABLED NextRaise
      /\ pc = "crashed" => \A p \in AllPaths : Untouched(p)
      /\ Finished =>
           /\ Consumed = Enumerated
           /\ out_summary.total = out_summary.successful + out_summary.failed
           /\ \A p \in Enumerated : res[p].ocr # "none"

\* three tasks, one raised while saving, the two others wrote their text
C19_Witness ==
    /\ variant = "par" /\ Finished
    /\ out_summary = [printed |-> TRUE, total |-> 3, successful |-> 2, failed |-> 1]
    /\ \E p \in Enumerated :
         /\ TaskRaised(res[p])
         /\ \A q \in Enumerated \ {p} : GotTextAndSaved(q) /\ disk[Derive(q)] = Text(q)

(* C14: once the walk or the pool has started, and every remote call       *)
(* returns, the run ends with its summary printed, every enumerated task   *)
(* run and counted, for every pool size >= 1 and every completion order.   *)
AllCounted ==
    /\ Finished
    /\ Consumed = Enumerated
    /\ \A p \in Enumerated : res[p].ocr # "none"
    /\ out_summary.successful + out_summary.failed = Cardinality(Enumerated)

C14_RunsToCompletion == (pc \in {"collect", "walk"}) ~> AllCounted

\* a pool of one has run and counted three tasks
C14_Witness ==
    /\ AllCounted /\ Cardinality(Enumerated) = 3
    /\ variant = "par" /\ max_workers = 1

(* C15: in the concurrent variant, when one remote call never returns,     *)
(* every other enumerated task is still eventually run, completed and      *)
(* counted by the dispatcher, which goes on waiting for the hung one.      *)
SomeCallHung == \E p \in AllPaths : stage[p] = "hung"

OthersCounted ==
    /\ pc = "collect"
    /\ \A q \in Enumerated : stage[q] \in {"hung", "collected"}
    /\ successful + failed = Cardinality(Enumerated) - 1

C15_HungCallBlocksNobody == SomeCallHung ~> OthersCounted

(* C15 as the code has it: the same, for a pool of at least two threads.   *)
C15_HungCallLeavesSpareWorkers ==
    (SomeCallHung /\ max_workers >= 2) ~> OthersCounted

\* a pool of two: one call hung, the two other tasks counted
C15_Witness ==
    /\ SomeCallHung /\ max_workers = 2
    /\ Cardinality(Enumerated) = 3
    /\ OthersCounted

(* C13: when the concurrent variant is run twice with no outside change to *)
(* the tree, the second run's list is exactly the images the first run     *)
(* listed and did not process successfully, and after a first run in which *)
(* every task succeeded the second run makes no remote call.               *)
FirstSucceeded(p) == prev_run.verdict[p] = "success"

C13_SecondRunResumes ==
    (prev_run.done /\ out_found >= 0) =>
       /\ Range(files_to_process) = {p \in prev_run.tasks : ~FirstSucceeded(p)}
       /\ (\A p \in prev_run.tasks : FirstSucceeded(p)) =>
             \A p \in AllPaths : calls[p] = 0

\* the part of C13 that holds: what succeeded is skipped, nothing new is
\* listed, and after a first run with only successes nothing is called
C13_SucceededAreSkipped ==
    (prev_run.done /\ out_found >= 0) =>
       /\ \A p \in prev_run.tasks : FirstSucceeded(p) => Untouched(p)
       /\ Range(files_to_process) \subseteq prev_run.tasks
       /\ (\A p \in prev_run.tasks : FirstSucceeded(p)) =>
             \A p \in AllPaths : calls[p] = 0

(* C20: a task is counted successful exactly when its remote call gave     *)
(* non-empty text and the write of it succeeded; a call that gives empty   *)
(* text is counted failed and its task opens no file, in both variants;    *)
(* and the next concurrent run lists such an image again.                  *)
C20_SuccessIffTextWritten ==
    /\ successful = Cardinality({p \in Consumed : GotTextAndSaved(p)})
    /\ failed = Cardinality({p \in Consumed : ~GotTextAndSaved(p)})
    /\ \A p \in AllPaths : res[p].ocr = "empty" => res[p].save = "none" /\ ~Opened(p)
    /\ (prev_run.done /\ out_found >= 0) =>
          \A p \in prev_run.tasks :
             prev_run.verdict[p] = "empty" => p \in Range(files_to_process)

\* the part of C20 about one run, in both variants
C20_CountedByTextAndWrite ==
    /\ successful = Cardinality({p \in Consumed : GotTextAndSaved(p)})
    /\ failed = Cardinality({p \in Consumed : ~GotTextAndSaved(p)})
    /\ \A p \in AllPaths : res[p].ocr = "empty" => res[p].save = "none" /\ ~Opened(p)
    /\ \A p \in AllPaths :
         (res[p].ocr = "empty" /\ ~SharesOutput(p)
            /\ \A q \in AllPaths : Derive(q) = Derive(p) => stage[q] # "writing") =>
               disk[Derive(p)] = disk0[Derive(p)]

====
